---- MODULE Spec2Model ----
(***************************************************************************)
(* Model of src/topdf.py: merge_pdf, merge_img, merge_img2 and the page    *)
(* normalizer (_rotate_img followed by two opencvlite resize calls).       *)
(*                                                                         *)
(* A string is a tuple of one-character strings, so that substring tests,  *)
(* len() and lexicographic comparison are computed as Python computes them.*)
(* All paths are written in full, below the root folder "r".  Extensions   *)
(* are left out: every file of the universe matches the wildcard of the    *)
(* called routine, and the output file r/r(.pdf) matches '*.pdf' only.     *)
(* The labelling arguments (label_with_file, label_with_fld) and the       *)
(* PrintProgress sink only change pixels and console output; they are not  *)
(* part of the state.  out_file, save_to_folder and pdf_file_name are left *)
(* at their defaults, so the output is rootdir/<basename of rootdir>.pdf.  *)
(*                                                                         *)
(* SpecTwice calls a routine of topdf twice in a row.  SpecZip models      *)
(* zipdir of src/zip.py, SpecExif the date properties of Image of          *)
(* src/exif.py, and SpecExcel the constructor and as_df of                 *)
(* ExcelAsDataFrame of src/excel.py.  Each specification leaves the        *)
(* variables of the others at their initial values.                        *)
(***************************************************************************)
EXTENDS Integers, Sequences, FiniteSets, TLC

\* Largest number of source files below the root folder.
MaxFiles == 3

\* Source images are at most MaxDim pixels wide and high; besides the sizes
\* next to 1 and to the page's width and height, every DimStep-th size is tried.
MaxDim == 1800
DimStep == 150

-----------------------------------------------------------------------------
(* Strings *)

\* Code points of the characters used, for str comparison.
Ord == ("/" :> 47) @@ ("a" :> 97) @@ ("b" :> 98) @@ ("d" :> 100) @@
       ("e" :> 101) @@ ("r" :> 114) @@ ("x" :> 120) @@ ("~" :> 126)

\* Python: x < y on str.
RECURSIVE StrLess(_, _)
StrLess(x, y) ==
    IF y = <<>> THEN FALSE
    ELSE IF x = <<>> THEN TRUE
    ELSE IF Head(x) # Head(y) THEN Ord[Head(x)] < Ord[Head(y)]
    ELSE StrLess(Tail(x), Tail(y))

\* Python: t in s, on str.
Contains(s, t) ==
    \E i \in 0..(Len(s) - Len(t)) : SubSeq(s, i + 1, i + Len(t)) = t

\* The sort-key functions a caller passes: len, and lambda s: s.
KeyLess(key, x, y) ==
    IF key = "len" THEN Len(x) < Len(y) ELSE StrLess(x, y)

KeyEq(key, x, y) == ~KeyLess(key, x, y) /\ ~KeyLess(key, y, x)

RECURSIVE InsertAfterEquals(_, _, _)
InsertAfterEquals(key, x, s) ==
    IF s = <<>> THEN <<x>>
    ELSE IF KeyLess(key, x, Head(s)) THEN <<x>> \o s
    ELSE <<Head(s)>> \o InsertAfterEquals(key, x, Tail(s))

RECURSIVE InsertBeforeEquals(_, _, _)
InsertBeforeEquals(key, x, s) ==
    IF s = <<>> THEN <<x>>
    ELSE IF ~KeyLess(key, Head(s), x) THEN <<x>> \o s
    ELSE <<Head(s)>> \o InsertBeforeEquals(key, x, Tail(s))

RECURSIVE StableSort(_, _)
StableSort(key, s) ==
    IF s = <<>> THEN <<>>
    ELSE InsertAfterEquals(key, s[Len(s)], StableSort(key, SubSeq(s, 1, Len(s) - 1)))

RECURSIVE UnstableSort(_, _)
UnstableSort(key, s) ==
    IF s = <<>> THEN <<>>
    ELSE InsertBeforeEquals(key, s[Len(s)], UnstableSort(key, SubSeq(s, 1, Len(s) - 1)))

\* A sort that puts equal keys in the reverse of their input order.
list_sort_unstable(key, s) == UnstableSort(key, s)

\* Python: s.sort(key=key).  list.sort is stable.
list_sort(key, s) == StableSort(key, s)

-----------------------------------------------------------------------------
(* Paths *)

RootDir == <<"r">>

\* rootdir/<basename of rootdir>.pdf
OutPdf == <<"r", "/", "r">>

\* The source files that may lie below the root folder.
Universe ==
    { <<"r", "/", "b">>,
      <<"r", "/", "a", "b">>,
      <<"r", "/", "a">>,
      <<"r", "/", "d", "/", "a">>,
      <<"r", "/", "d", "/", "b">>,
      <<"r", "/", "e", "/", "a">>,
      <<"r", "/", "d", "/", "e", "/", "a">> }

SepIdx(p) == {i \in 1..Len(p) : p[i] = "/"}

LastSep(p) == CHOOSE i \in SepIdx(p) : \A j \in SepIdx(p) : j <= i

\* os.path.basename and os.path.dirname
basename(p) == IF SepIdx(p) = {} THEN p ELSE SubSeq(p, LastSep(p) + 1, Len(p))

dirname(p) == IF SepIdx(p) = {} THEN <<>> ELSE SubSeq(p, 1, LastSep(p) - 1)

\* p lies in folder d or in a folder below d.
IsBelow(p, d) ==
    /\ Len(p) > Len(d) + 1
    /\ SubSeq(p, 1, Len(d)) = d
    /\ p[Len(d) + 1] = "/"

\* The folders a set of files implies: rootdir and every folder holding a file.
FoldersOf(S) ==
    {RootDir} \cup UNION {{SubSeq(p, 1, i - 1) : i \in SepIdx(p)} : p \in S}

\* All enumeration orders of a finite set.
RECURSIVE Orders(_)
Orders(S) ==
    IF S = {} THEN {<<>>}
    ELSE UNION {{<<x>> \o s : s \in Orders(S \ {x})} : x \in S}

Range(s) == {s[i] : i \in DOMAIN s}

IndexOf(s, x) == CHOOSE i \in DOMAIN s : s[i] = x

RECURSIVE Flatten(_)
Flatten(ss) == IF ss = <<>> THEN <<>> ELSE Head(ss) \o Flatten(Tail(ss))

-----------------------------------------------------------------------------
(* find / exclude arguments: None, a str, a list of str or a tuple of str *)

NoneArg == [kind |-> "none", str |-> <<>>, items |-> <<>>]
StrArg(s) == [kind |-> "str", str |-> s, items |-> <<>>]
ListArg(l) == [kind |-> "list", str |-> <<>>, items |-> l]
TupleArg(l) == [kind |-> "tuple", str |-> <<>>, items |-> l]

\* Python truth value of the argument.
Truthy(a) ==
    \/ a.kind = "str" /\ a.str # <<>>
    \/ a.kind \in {"list", "tuple"} /\ a.items # <<>>

\* Python iteration: a str yields its characters, a list or tuple its members.
Iter(a) ==
    IF a.kind = "str" THEN [i \in 1..Len(a.str) |-> <<a.str[i]>>] ELSE a.items

\* funclite.baselib.list_member_in_str(s, match): some member of match is in s.
list_member_in_str(s, match) ==
    \E i \in DOMAIN Iter(match) : Contains(s, Iter(match)[i])

-----------------------------------------------------------------------------
(* Calls *)

\* The key a routine sorts by when the caller passes no key function.
default_key_identity(fn) == "ident"

default_key(fn) == IF fn = "merge_pdf" THEN "ident" ELSE "len"

\* The key in force: the default, lambda x: x for None, else the one passed.
sort_key(fn, arg) ==
    IF arg = "default" THEN default_key(fn)
    ELSE IF arg = "none" THEN "ident"
    ELSE arg

\* The calls tried.  The filters are varied under the default key, the keys
\* on unfiltered calls.
Unfiltered(c) == c.find \in {NoneArg, StrArg(<<>>)} /\ c.exclude = NoneArg

PdfCalls ==
    {c \in [fn : {"merge_pdf"},
            find : {NoneArg, StrArg(<<"a">>), TupleArg(<< <<"b">> >>)},
            exclude : {NoneArg, StrArg(<<"a", "b">>), ListArg(<< <<"a", "b">> >>),
                       TupleArg(<< <<"b">> >>)},
            sort : {"default", "len"}, dsort : {"default"},
            recurse : BOOLEAN, overwrite : {FALSE}, keep : {FALSE}] :
        c.sort = "default" \/ Unfiltered(c)}

ImgCalls ==
    {c \in [fn : {"merge_img"},
            find : {StrArg(<<>>), StrArg(<<"a">>)},
            exclude : {NoneArg},
            sort : {"default", "none"}, dsort : {"default"},
            recurse : {FALSE}, overwrite : BOOLEAN, keep : BOOLEAN] :
        c.sort = "default" \/ Unfiltered(c)}

Img2Calls ==
    {c \in [fn : {"merge_img2"},
            find : {NoneArg, ListArg(<< <<"a">> >>)},
            exclude : {NoneArg, ListArg(<< <<"b">> >>)},
            sort : {"default", "none"}, dsort : {"default", "none"},
            recurse : BOOLEAN, overwrite : BOOLEAN, keep : BOOLEAN] :
        /\ c.recurse \/ c.dsort = "default"
        /\ c.find = NoneArg \/ c.exclude = NoneArg
        /\ (c.sort = "default" /\ c.dsort = "default") \/ Unfiltered(c)}

ImgFns == {"merge_img", "merge_img2"}

NoCall ==
    [fn |-> "none", find |-> NoneArg, exclude |-> NoneArg, sort |-> "default",
     dsort |-> "default", recurse |-> FALSE, overwrite |-> FALSE, keep |-> FALSE]

-----------------------------------------------------------------------------
(* State *)

VARIABLES
    fs,           \* the files below rootdir: source files and, if it exists, the output pdf
    call,         \* the arguments of the call in progress
    pc,           \* position in the called routine
    enumerated,   \* the order in which the file generator yielded the candidates
    fld_enum,     \* the order in which folder_generator2 yielded the folders (rootdir removed)
    folders,      \* merge_img2: folders, after the sort
    groups,       \* merge_img2: lst of every folder of folders, after the sort
    pdfs,         \* merge_pdf: pdfs
    files,        \* merge_img, merge_img2: files
    FL,           \* the paths FromList was built from
    idx,          \* index into FL of the image the loop is at
    image_files,  \* merge_img2: image_files
    tmp_fld,      \* "none", "exists" or "removed"
    staged,       \* pages written to tmp_fld: [name, src] in write order
    write_failed, \* cv2.imwrite has returned False
    out_written,  \* the output pdf was opened 'wb' by this call
    packed,       \* the list handed to PdfFileMerger / img2pdf.convert
    result,       \* "running", "returned", "sentinel" or the exception raised
    ret_files,    \* third element of the returned tuple
    src_wh,       \* normalizer: (w, h) of the source image
    img_wh,       \* normalizer: (w, h) of img
    npc           \* normalizer: position in lines 180-184

callvars == <<call, pc, enumerated, fld_enum, folders, groups, pdfs, files, FL, idx,
              image_files, tmp_fld, staged, write_failed, out_written, packed,
              result, ret_files>>

normvars == <<src_wh, img_wh, npc>>

\* src/zip.py, zipdir(root, dest, name_match, overwrite)
VARIABLES
    zroot,        \* the files in root
    zdest,        \* dest: [exists, members]
    zcall,        \* the arguments of the last call
    zlisted,      \* the last call has listed root
    zread,        \* the files of root the last call has read
    zopened,      \* the last call has opened dest with mode 'w'
    zresult       \* "none", "returned" or the exception raised

zipvars == <<zroot, zdest, zcall, zlisted, zread, zopened, zresult>>

\* src/exif.py, class Image
VARIABLES
    ex_tags,      \* self.tags, on the three date keys: the value, or "absent"
    ex_other,     \* self.tags holds keys other than the three date keys
    ex_date,      \* self._date_taken: a datetime, or None
    ex_op,        \* the property read last
    ex_exc,       \* the exception the last read raised, or "none"
    ex_hist,      \* the values the reads of date_taken have returned, in order
    ex_year       \* the value the last read of year_taken returned

exvars == <<ex_tags, ex_other, ex_date, ex_op, ex_exc, ex_hist, ex_year>>

\* src/excel.py, class ExcelAsDataFrame
VARIABLES
    xl_active,    \* an Excel application is running before the constructor is called
    xl_file,      \* the workbook file exists
    xl_pc,        \* "none", "ready" (constructed) or "failed" (the constructor raised)
    xl_app,       \* self.xlApp: "none", "active" (acquired) or "created" (started)
    xl_book,      \* the workbook has been opened
    xl_df,        \* self.df
    xl_df0,       \* self.df before the last call
    xl_call,      \* the last call and its arguments
    xl_warned,    \* the last call has warned
    xl_acc,       \* what the last call has accessed in the workbook
    xl_path,      \* the read path the last call took: "none", "xlwings" or "pandas"
    xl_exc        \* the exception the last call raised, or "none"

xlvars == <<xl_active, xl_file, xl_pc, xl_app, xl_book, xl_df, xl_df0, xl_call,
            xl_warned, xl_acc, xl_path, xl_exc>>

\* The state of the modules other than topdf.
modvars == <<zipvars, exvars, xlvars>>

\* A routine of topdf called a second time
VARIABLES
    run,          \* 1, or 2 in the second call
    first,        \* what the first call was given and what it merged
    tmp_seed      \* the names the temporary-name generator hands out in this call

runvars == <<run, first, tmp_seed>>

vars == <<fs, callvars, normvars, modvars, runvars>>

TmpSeeds == {"up", "down"}

\* cv2 names a staged page by a fresh temporary file name in tmp_fld: the
\* n-th name of a call is new in that call, and which name it is depends on
\* the generator alone.
get_temp_fname(n) ==
    <<"~">> \o [j \in 1..(IF tmp_seed = "up" THEN n ELSE MaxFiles + 2 - n) |-> "x"]

IsTmp(name) == name # <<>> /\ name[1] = "~"

NormIdle ==
    /\ src_wh = <<1, 1>>
    /\ img_wh = <<1, 1>>
    /\ npc = "off"

\* No call has been made.
CallIdle ==
    /\ call = NoCall
    /\ pc = "idle"
    /\ enumerated = <<>>
    /\ fld_enum = <<>>
    /\ folders = <<>>
    /\ groups = <<>>
    /\ pdfs = <<>>
    /\ files = <<>>
    /\ FL = <<>>
    /\ idx = 1
    /\ image_files = <<>>
    /\ tmp_fld = "none"
    /\ staged = <<>>
    /\ write_failed = FALSE
    /\ out_written = FALSE
    /\ packed = <<>>
    /\ result = "running"
    /\ ret_files = <<>>

NoZip == [exists |-> FALSE, members |-> <<>>]

NoZipCall == [name_match |-> TupleArg(<<>>), overwrite |-> TRUE]

ZipIdle ==
    /\ zroot = {}
    /\ zdest = NoZip
    /\ zcall = NoZipCall
    /\ zlisted = FALSE
    /\ zread = {}
    /\ zopened = FALSE
    /\ zresult = "none"

DateKeys == {"DateTime", "DateTimeOriginal", "DateTimeDigitized"}

\* Python's None, where a datetime is <<year, month, day>>.
None == <<>>

ExifIdle ==
    /\ ex_tags = [k \in DateKeys |-> "absent"]
    /\ ex_other = FALSE
    /\ ex_date = None
    /\ ex_op = "none"
    /\ ex_exc = "none"
    /\ ex_hist = <<>>
    /\ ex_year = 0

\* self.df: None, or the data frame read from area of sheet by engine.
NoDf == [engine |-> "none", sheet |-> "", area |-> "none"]

NoXlCall ==
    [op |-> "none", worksheet |-> "", table |-> "", range_ |-> "",
     set_as_self_dot_df |-> TRUE, engine |-> "xlwings"]

XlIdle ==
    /\ xl_active = FALSE
    /\ xl_file = TRUE
    /\ xl_pc = "none"
    /\ xl_app = "none"
    /\ xl_book = FALSE
    /\ xl_df = NoDf
    /\ xl_df0 = NoDf
    /\ xl_call = NoXlCall
    /\ xl_warned = FALSE
    /\ xl_acc = {}
    /\ xl_path = "none"
    /\ xl_exc = "none"

ModIdle == ZipIdle /\ ExifIdle /\ XlIdle

NoFirst ==
    [call |-> NoCall, enumerated |-> <<>>, fld_enum |-> <<>>, pdfs |-> <<>>,
     packed |-> <<>>, order |-> <<>>, truthy |-> {}, stop |-> {}]

\* The first call, with the generator in its initial state.
RunIdle ==
    /\ run = 1
    /\ first = NoFirst
    /\ tmp_seed = "up"

Init ==
    /\ fs \in {S \in SUBSET (Universe \cup {OutPdf}) : Cardinality(S \ {OutPdf}) <= MaxFiles}
    /\ CallIdle
    /\ NormIdle
    /\ ModIdle
    /\ RunIdle

-----------------------------------------------------------------------------
(* merge_pdf *)

\* Lines 81-96: whether file name f is appended to pdfs.
pdf_selected(f, find, exclude) ==
    LET find1 == IF find.kind = "str" THEN ListArg(<<find.str>>) ELSE find
        excluded == Truthy(exclude) /\ list_member_in_str(f, exclude)
        found == IF Truthy(find1) THEN list_member_in_str(f, find1) ELSE TRUE
    IN  ~excluded /\ found

\* file_list_generator_dfe(rootdir, '*.pdf', recurse): the pdfs in rootdir, or below it.
pdf_candidates(S, recurse) ==
    {p \in S : IF recurse THEN IsBelow(p, RootDir) ELSE dirname(p) = RootDir}

merge_pdf(c) ==
    /\ pc = "idle"
    /\ c \in PdfCalls
    /\ \E e \in Orders(pdf_candidates(fs, c.recurse)) :
         LET sel == SelectSeq(e, LAMBDA p : pdf_selected(basename(p), c.find, c.exclude))
             sorted == list_sort(sort_key(c.fn, c.sort), sel)
         IN  /\ enumerated' = e
             /\ pdfs' = sorted
             /\ packed' = sorted
    /\ call' = c
    /\ out_written' = TRUE
    /\ fs' = fs \cup {OutPdf}
    /\ result' = "returned"
    /\ pc' = "done"
    /\ UNCHANGED <<fld_enum, folders, groups, files, FL, idx, image_files, tmp_fld,
                   staged, write_failed, ret_files, normvars, modvars, runvars>>


-----------------------------------------------------------------------------
(* merge_img *)

\* The truth value Python gives line 177's "img is None or not img" for the
\* object FromList yields: None; an object whose truth value is False (an
\* empty or all-zero one-element array); one whose truth value is True (a
\* non-zero one-element array); an ndarray of more than one element, for
\* which "not img" raises ValueError.
ImgTruth == {"None", "falsy", "truthy", "ambiguous"}

\* file_list_generator1(rootdir, IMAGE_EXTENSIONS_WILDCARDED): the images in rootdir.
img_candidates(S) == {p \in S : dirname(p) = RootDir /\ p # OutPdf}

\* Lines 188-191: the page is skipped.
mi_find_rejects(find, fname) == Truthy(find) /\ ~Contains(fname, find.str)

\* Lines 161-167.
mi_discover(c) ==
    /\ pc = "idle"
    /\ c \in ImgCalls
    /\ call' = c
    /\ \E e \in Orders(img_candidates(fs)) :
         /\ enumerated' = e
         /\ files' = list_sort(sort_key(c.fn, c.sort), e)
    /\ IF files' = <<>>
       THEN /\ result' = "sentinel"
            /\ pc' = "done"
       ELSE /\ result' = "running"
            /\ pc' = "mkdir"
    /\ UNCHANGED <<fs, fld_enum, folders, groups, pdfs, FL, idx, image_files, tmp_fld,
                   staged, write_failed, out_written, packed, ret_files, normvars, modvars, runvars>>

\* Lines 169-174.
mi_mkdir ==
    /\ pc = "mkdir"
    /\ call.fn = "merge_img"
    /\ tmp_fld' = "exists"
    /\ FL' = files
    /\ idx' = 1
    /\ pc' = "loop"
    /\ UNCHANGED <<fs, call, enumerated, fld_enum, folders, groups, pdfs, files,
                   image_files, staged, write_failed, out_written, packed, result,
                   ret_files, normvars, modvars, runvars>>

\* Lines 176-208: one pass of the loop, for the image of path FL[idx].
mi_page(truth, written) ==
    /\ pc = "loop"
    /\ call.fn = "merge_img"
    /\ LET pth == FL[idx]
           fname == get_temp_fname(Len(staged) + 1)
           next == IF idx = Len(FL) THEN "pdf" ELSE "loop"
       IN  CASE truth \in {"None", "falsy"} ->
                  /\ pc' = "pdf"
                  /\ UNCHANGED <<idx, files, staged, write_failed, result>>
             [] truth = "ambiguous" ->
                  /\ pc' = "done"
                  /\ result' = "ValueError"
                  /\ UNCHANGED <<idx, files, staged, write_failed>>
             [] truth = "truthy" /\ mi_find_rejects(call.find, basename(pth)) ->
                  /\ pc' = next
                  /\ idx' = idx + 1
                  /\ UNCHANGED <<files, staged, write_failed, result>>
             [] truth = "truthy" /\ ~mi_find_rejects(call.find, basename(pth)) /\ ~written ->
                  /\ pc' = "done"
                  /\ result' = "Exception"
                  /\ write_failed' = TRUE
                  /\ UNCHANGED <<idx, files, staged>>
             [] truth = "truthy" /\ ~mi_find_rejects(call.find, basename(pth)) /\ written ->
                  /\ pc' = next
                  /\ idx' = idx + 1
                  /\ staged' = Append(staged, [name |-> fname, src |-> pth])
                  /\ files' = Append(files, fname)
                  /\ UNCHANGED <<write_failed, result>>
    /\ UNCHANGED <<fs, call, enumerated, fld_enum, folders, groups, pdfs, FL,
                   image_files, tmp_fld, out_written, packed, ret_files, normvars, modvars, runvars>>

\* Lines 210-224.
mi_make_pdf(converted) ==
    /\ pc = "pdf"
    /\ call.fn = "merge_img"
    /\ IF ~call.overwrite /\ OutPdf \in fs
       THEN /\ result' = "FileExistsError"
            /\ pc' = "done"
            /\ UNCHANGED <<fs, out_written, packed>>
       ELSE /\ fs' = fs \cup {OutPdf}
            /\ out_written' = TRUE
            /\ packed' = files
            /\ IF converted
               THEN /\ pc' = "cleanup"
                    /\ UNCHANGED result
               ELSE /\ pc' = "done"
                    /\ result' = "ConvertError"
    /\ UNCHANGED <<call, enumerated, fld_enum, folders, groups, pdfs, files, FL, idx,
                   image_files, tmp_fld, staged, write_failed, ret_files, normvars, modvars, runvars>>

\* Lines 226-232.
mi_cleanup ==
    /\ pc = "cleanup"
    /\ call.fn = "merge_img"
    /\ tmp_fld' = IF call.keep THEN tmp_fld ELSE "removed"
    /\ result' = "returned"
    /\ ret_files' = files
    /\ pc' = "done"
    /\ UNCHANGED <<fs, call, enumerated, fld_enum, folders, groups, pdfs, files, FL, idx,
                   image_files, staged, write_failed, out_written, packed, normvars, modvars, runvars>>


-----------------------------------------------------------------------------
(* merge_img2 *)

\* file_list_generator2's find / exclude filter on a file name.
flg2_selected(f, find, exclude) ==
    /\ ~(Truthy(exclude) /\ list_member_in_str(f, exclude))
    /\ Truthy(find) => list_member_in_str(f, find)

\* file_list_generator2(fld, IMAGE_EXTENSIONS_WILDCARDED, find, exclude, recurse):
\* the selected images in fld, and with recurse those below it.
flg2_candidates(S, fld, find, exclude, recurse) ==
    {p \in S : /\ p # OutPdf
               /\ IF recurse THEN IsBelow(p, fld) ELSE dirname(p) = fld
               /\ flg2_selected(basename(p), find, exclude)}

\* folder_generator2(rootdir): rootdir and every folder below it.
folder_generator2(S) == FoldersOf(S \ {OutPdf})

\* Lines 286-288: the folders below rootdir, sorted.
mi2_folders(fe, key) == list_sort(key, fe)

\* Lines 289-293: lst of every folder, in the order of folders.
mi2_groups(flds, e, key) ==
    [k \in DOMAIN flds |-> list_sort(key, SelectSeq(e, LAMBDA p : IsBelow(p, flds[k])))]

\* Lines 277-301.
mi2_discover(c) ==
    /\ pc = "idle"
    /\ c \in Img2Calls
    /\ call' = c
    /\ IF c.recurse
       THEN \E fe \in Orders(folder_generator2(fs) \ {RootDir}) :
            \E e \in Orders(UNION {flg2_candidates(fs, fld, c.find, c.exclude, TRUE) :
                                       fld \in folder_generator2(fs) \ {RootDir}}) :
              /\ fld_enum' = fe
              /\ enumerated' = e
              /\ folders' = mi2_folders(fe, sort_key(c.fn, c.dsort))
              /\ groups' = mi2_groups(folders', e, sort_key(c.fn, c.sort))
              /\ files' = Flatten(groups')
       ELSE \E e \in Orders(flg2_candidates(fs, RootDir, c.find, c.exclude, FALSE)) :
              /\ enumerated' = e
              /\ files' = list_sort(sort_key(c.fn, c.sort), e)
              /\ UNCHANGED <<fld_enum, folders, groups>>
    /\ IF files' = <<>>
       THEN /\ result' = "sentinel"
            /\ pc' = "done"
       ELSE /\ result' = "running"
            /\ pc' = "mkdir"
    /\ UNCHANGED <<fs, pdfs, FL, idx, image_files, tmp_fld, staged, write_failed,
                   out_written, packed, ret_files, normvars, modvars, runvars>>

\* Lines 303-308.
mi2_mkdir ==
    /\ pc = "mkdir"
    /\ call.fn = "merge_img2"
    /\ tmp_fld' = "exists"
    /\ FL' = files
    /\ idx' = 1
    /\ image_files' = <<>>
    /\ pc' = "loop"
    /\ UNCHANGED <<fs, call, enumerated, fld_enum, folders, groups, pdfs, files,
                   staged, write_failed, out_written, packed, result, ret_files,
                   normvars, modvars, runvars>>

\* Lines 328-329 with a failed write ignored: the page is skipped.
mi2_page_unchecked(written) ==
    /\ pc = "loop"
    /\ call.fn = "merge_img2"
    /\ pc' = IF idx = Len(FL) THEN "pdf" ELSE "loop"
    /\ idx' = idx + 1
    /\ IF written
       THEN /\ staged' = Append(staged, [name |-> get_temp_fname(Len(staged) + 1), src |-> FL[idx]])
            /\ image_files' = Append(image_files, get_temp_fname(Len(staged) + 1))
            /\ UNCHANGED write_failed
       ELSE /\ write_failed' = TRUE
            /\ UNCHANGED <<staged, image_files>>
    /\ UNCHANGED <<fs, call, enumerated, fld_enum, folders, groups, pdfs, files, FL,
                   tmp_fld, out_written, packed, result, ret_files, normvars, modvars, runvars>>

\* Lines 309-332: one pass of the loop, for the image of path FL[idx].
mi2_page(written) ==
    /\ pc = "loop"
    /\ call.fn = "merge_img2"
    /\ IF written
       THEN /\ staged' = Append(staged, [name |-> get_temp_fname(Len(staged) + 1), src |-> FL[idx]])
            /\ image_files' = Append(image_files, get_temp_fname(Len(staged) + 1))
            /\ idx' = idx + 1
            /\ pc' = IF idx = Len(FL) THEN "pdf" ELSE "loop"
            /\ UNCHANGED <<write_failed, result>>
       ELSE /\ write_failed' = TRUE
            /\ result' = "Exception"
            /\ pc' = "done"
            /\ UNCHANGED <<staged, image_files, idx>>
    /\ UNCHANGED <<fs, call, enumerated, fld_enum, folders, groups, pdfs, files, FL,
                   tmp_fld, out_written, packed, ret_files, normvars, modvars, runvars>>

\* Lines 334-348 with the pages taken from a listing of tmp_fld in name order
\* instead of image_files.
mi2_make_pdf_listing(converted) ==
    /\ pc = "pdf"
    /\ call.fn = "merge_img2"
    /\ IF ~call.overwrite /\ OutPdf \in fs
       THEN /\ result' = "FileExistsError"
            /\ pc' = "done"
            /\ UNCHANGED <<fs, out_written, packed>>
       ELSE /\ fs' = fs \cup {OutPdf}
            /\ out_written' = TRUE
            /\ packed' = list_sort("ident", image_files)
            /\ IF converted
               THEN /\ pc' = "cleanup"
                    /\ UNCHANGED result
               ELSE /\ pc' = "done"
                    /\ result' = "ConvertError"
    /\ UNCHANGED <<call, enumerated, fld_enum, folders, groups, pdfs, files, FL, idx,
                   image_files, tmp_fld, staged, write_failed, ret_files, normvars, modvars, runvars>>

\* Lines 334-348.
mi2_make_pdf(converted) ==
    /\ pc = "pdf"
    /\ call.fn = "merge_img2"
    /\ IF ~call.overwrite /\ OutPdf \in fs
       THEN /\ result' = "FileExistsError"
            /\ pc' = "done"
            /\ UNCHANGED <<fs, out_written, packed>>
       ELSE /\ fs' = fs \cup {OutPdf}
            /\ out_written' = TRUE
            /\ packed' = image_files
            /\ IF converted
               THEN /\ pc' = "cleanup"
                    /\ UNCHANGED result
               ELSE /\ pc' = "done"
                    /\ result' = "ConvertError"
    /\ UNCHANGED <<call, enumerated, fld_enum, folders, groups, pdfs, files, FL, idx,
                   image_files, tmp_fld, staged, write_failed, ret_files, normvars, modvars, runvars>>

\* Lines 350-356.
mi2_cleanup ==
    /\ pc = "cleanup"
    /\ call.fn = "merge_img2"
    /\ tmp_fld' = IF call.keep THEN tmp_fld ELSE "removed"
    /\ result' = "returned"
    /\ ret_files' = files
    /\ pc' = "done"
    /\ UNCHANGED <<fs, call, enumerated, fld_enum, folders, groups, pdfs, files, FL, idx,
                   image_files, staged, write_failed, out_written, packed, normvars, modvars, runvars>>

-----------------------------------------------------------------------------
(* Specification of the three routines *)

Next ==
    \/ \E c \in PdfCalls : merge_pdf(c)
    \/ \E c \in ImgCalls : mi_discover(c)
    \/ mi_mkdir
    \/ \E truth \in ImgTruth, written \in BOOLEAN : mi_page(truth, written)
    \/ \E converted \in BOOLEAN : mi_make_pdf(converted)
    \/ mi_cleanup
    \/ \E c \in Img2Calls : mi2_discover(c)
    \/ mi2_mkdir
    \/ \E written \in BOOLEAN : mi2_page(written)
    \/ \E converted \in BOOLEAN : mi2_make_pdf(converted)
    \/ mi2_cleanup

Spec == Init /\ [][Next]_vars

-----------------------------------------------------------------------------
(* A routine called twice in a row, with the same arguments, on the folder  *)
(* as its first call left it                                                *)

\* Largest number of source files below the root folder when a routine is
\* called twice.
MaxFilesTwice == 2

\* The source image of every page handed to the merger, in page order.
PageOrder ==
    [i \in DOMAIN packed |->
        IF IsTmp(packed[i])
        THEN staged[CHOOSE k \in DOMAIN staged : staged[k].name = packed[i]].src
        ELSE packed[i]]

NotOut(p) == p # OutPdf

\* The calls made twice: with overwrite=False the second call of merge_img
\* and merge_img2 finds the output of the first and merges nothing, and
\* keep_tmp_images has no part in what is merged.
CalledTwice(c) == c.fn \in ImgFns => (c.overwrite /\ ~c.keep)

\* The second call is given the arguments of the first.
SameCall(c) == CalledTwice(c) /\ (run = 2 => c = first.call)

\* The folder is listed in the second call as in the first: the entries are
\* yielded in the same order, the output pdf of the first call among them.
SameListing ==
    run = 2 =>
        /\ fld_enum' = first.fld_enum
        /\ SelectSeq(enumerated', NotOut) = SelectSeq(first.enumerated, NotOut)
        /\ OutPdf \in Range(first.enumerated) => enumerated' = first.enumerated

\* An image reads in the second call as it read in the first.
SameImage(truth) ==
    run = 2 =>
        /\ FL[idx] \in first.truthy => truth = "truthy"
        /\ FL[idx] \in first.stop => truth \in {"None", "falsy"}

\* The first call has returned; the routine is called again.
again ==
    /\ run = 1
    /\ pc = "done"
    /\ result = "returned"
    /\ run' = 2
    /\ first' = [call |-> call, enumerated |-> enumerated, fld_enum |-> fld_enum,
                 pdfs |-> pdfs, packed |-> packed, order |-> PageOrder,
                 truthy |-> IF call.fn = "merge_img" THEN {FL[i] : i \in 1..(idx - 1)} ELSE {},
                 stop |-> IF call.fn = "merge_img" /\ idx <= Len(FL) THEN {FL[idx]} ELSE {}]
    /\ tmp_seed' \in IF call.fn \in ImgFns THEN TmpSeeds ELSE {tmp_seed}
    /\ call' = NoCall
    /\ pc' = "idle"
    /\ enumerated' = <<>>
    /\ fld_enum' = <<>>
    /\ folders' = <<>>
    /\ groups' = <<>>
    /\ pdfs' = <<>>
    /\ files' = <<>>
    /\ FL' = <<>>
    /\ idx' = 1
    /\ image_files' = <<>>
    /\ tmp_fld' = "none"
    /\ staged' = <<>>
    /\ write_failed' = FALSE
    /\ out_written' = FALSE
    /\ packed' = <<>>
    /\ result' = "running"
    /\ ret_files' = <<>>
    /\ UNCHANGED <<fs, normvars, modvars>>

InitTwice ==
    /\ fs \in {S \in SUBSET (Universe \cup {OutPdf}) : Cardinality(S \ {OutPdf}) <= MaxFilesTwice}
    /\ CallIdle
    /\ NormIdle
    /\ ModIdle
    /\ RunIdle

NextTwice ==
    \/ \E c \in PdfCalls : SameCall(c) /\ merge_pdf(c) /\ SameListing
    \/ \E c \in ImgCalls : SameCall(c) /\ mi_discover(c) /\ SameListing
    \/ mi_mkdir
    \/ \E truth \in ImgTruth, written \in BOOLEAN : mi_page(truth, written) /\ SameImage(truth)
    \/ \E converted \in BOOLEAN : mi_make_pdf(converted)
    \/ mi_cleanup
    \/ \E c \in Img2Calls : SameCall(c) /\ mi2_discover(c) /\ SameListing
    \/ mi2_mkdir
    \/ \E written \in BOOLEAN : mi2_page(written)
    \/ \E converted \in BOOLEAN : mi2_make_pdf(converted)
    \/ mi2_cleanup
    \/ again

SpecTwice == InitTwice /\ [][NextTwice]_vars


-----------------------------------------------------------------------------
(* The page normalizer: lines 180-184 of merge_img, 310-314 of merge_img2 *)

\* a4.dpi72
A4W == 595
A4H == 842

Dims ==
    {d \in 1..MaxDim : \/ d <= 3
                       \/ d % DimStep = 0
                       \/ d \in (A4W - 1)..(A4W + 1)
                       \/ d \in (A4H - 1)..(A4H + 1)}

\* _rotate_img: rotate by -90 degrees when the image is wider than high.
rotate_img(wh) == IF wh[1] > wh[2] THEN <<wh[2], wh[1]>> ELSE wh

\* opencvlite.transforms.resize(img, height=h, do_not_grow=True): scale to
\* height h keeping the aspect ratio (int() truncates), unless that would grow.
resize_height(wh, h) ==
    IF h >= wh[2] THEN wh ELSE <<(wh[1] * h) \div wh[2], h>>

\* opencvlite.transforms.resize(img, width=w, do_not_grow=True)
resize_width(wh, w) ==
    IF w >= wh[1] THEN wh ELSE <<w, (wh[2] * w) \div wh[1]>>

\* Line 183 alone: the resize to the page's width is left out.
resize_page_height_only(wh) == resize_height(wh, A4H)

\* Lines 182-184.
resize_page(wh) == resize_width(resize_height(wh, A4H), A4W)

\* cv2.resize raises on an empty target size.
Empty(wh) == wh[1] = 0 \/ wh[2] = 0

InitNorm ==
    /\ fs = {}
    /\ CallIdle
    /\ ModIdle
    /\ RunIdle
    /\ src_wh \in Dims \X Dims
    /\ img_wh = src_wh
    /\ npc = "rotate"

\* Line 180 (310).
norm_rotate ==
    /\ npc = "rotate"
    /\ img_wh' = rotate_img(img_wh)
    /\ npc' = "resize"
    /\ UNCHANGED <<fs, callvars, src_wh, modvars, runvars>>

\* Lines 182-184 (312-314).
norm_resize ==
    /\ npc = "resize"
    /\ IF Empty(resize_height(img_wh, A4H)) \/ Empty(resize_page(img_wh))
       THEN /\ npc' = "cv2.error"
            /\ UNCHANGED img_wh
       ELSE /\ npc' = "page"
            /\ img_wh' = resize_page(img_wh)
    /\ UNCHANGED <<fs, callvars, src_wh, modvars, runvars>>

NextNorm == norm_rotate \/ norm_resize

SpecNorm == InitNorm /\ [][NextNorm]_vars


-----------------------------------------------------------------------------
(* src/zip.py: zipdir.  dest lies outside root. *)

\* The files that may lie in root.
ZipUniverse == {p \in Universe : dirname(p) = RootDir}

\* An archive left at dest by an earlier program.
OldZip == [exists |-> TRUE, members |-> << <<"o">> >>]

ZipNameMatch ==
    {TupleArg(<<>>), StrArg(<<"a">>), StrArg(<<"a", "b">>), ListArg(<< <<"b">>, <<"c">> >>),
     TupleArg(<< <<"r">> >>)}

\* Lines 92-93 and 97: _filt, on the full path t; a str is wrapped into a list.
zip_filt(t, name_match) ==
    list_member_in_str(t, IF name_match.kind = "str" THEN ListArg(<<name_match.str>>)
                          ELSE name_match)

\* zipdir with the test of lines 99-100 made inside the with block of line 105.
zipdir_open_first(name_match, overwrite) ==
    /\ zcall' = [name_match |-> name_match, overwrite |-> overwrite]
    /\ IF zdest.exists /\ ~overwrite
       THEN /\ zresult' = "FileExistsError"
            /\ zopened' = TRUE
            /\ zdest' = [exists |-> TRUE, members |-> <<>>]
            /\ zlisted' = TRUE
            /\ zread' = {}
       ELSE \E e \in Orders(zroot) :
              LET fnames == SelectSeq(e, LAMBDA t : zip_filt(t, name_match))
              IN  /\ zlisted' = TRUE
                  /\ zopened' = TRUE
                  /\ zread' = Range(fnames)
                  /\ zdest' = [exists |-> TRUE, members |-> fnames]
                  /\ zresult' = "returned"
    /\ UNCHANGED <<zroot, fs, callvars, normvars, exvars, xlvars, runvars>>

\* Lines 95-109.
zipdir(name_match, overwrite) ==
    /\ zcall' = [name_match |-> name_match, overwrite |-> overwrite]
    /\ IF zdest.exists /\ ~overwrite
       THEN /\ zresult' = "FileExistsError"
            /\ zlisted' = FALSE
            /\ zread' = {}
            /\ zopened' = FALSE
            /\ UNCHANGED zdest
       ELSE \E e \in Orders(zroot) :
              LET fnames == SelectSeq(e, LAMBDA t : zip_filt(t, name_match))
              IN  /\ zlisted' = TRUE
                  /\ zopened' = TRUE
                  /\ zread' = Range(fnames)
                  /\ zdest' = [exists |-> TRUE, members |-> fnames]
                  /\ zresult' = "returned"
    /\ UNCHANGED <<zroot, fs, callvars, normvars, exvars, xlvars, runvars>>

InitZip ==
    /\ fs = {}
    /\ CallIdle
    /\ NormIdle
    /\ RunIdle
    /\ zroot \in SUBSET ZipUniverse
    /\ zdest \in {NoZip, OldZip}
    /\ zcall = NoZipCall
    /\ zlisted = FALSE
    /\ zread = {}
    /\ zopened = FALSE
    /\ zresult = "none"
    /\ ExifIdle
    /\ XlIdle

NextZip == \E name_match \in ZipNameMatch, overwrite \in BOOLEAN : zipdir(name_match, overwrite)

SpecZip == InitZip /\ [][NextZip]_vars

-----------------------------------------------------------------------------
(* src/exif.py: Image.date_taken, Image.year_taken *)

\* Largest number of reads of date_taken.
MaxAccess == 3

\* The values of a date tag: no such key, a string dateutil cannot parse, and
\* two EXIF date strings.
TagValues == {"absent", "junk", "2016:05:12 10:30:00", "2017:06:01 09:00:00"}

Parseable(v) == v \in {"2016:05:12 10:30:00", "2017:06:01 09:00:00"}

\* Line 59: _parse(dt.replace(':', '').replace('-', '')), for a parseable dt.
exif_parse(v) ==
    IF v = "2016:05:12 10:30:00" THEN <<2016, 5, 12>> ELSE <<2017, 6, 1>>

\* not self.tags
TagsEmpty == ~ex_other /\ \A k \in DateKeys : ex_tags[k] = "absent"

\* Line 57: the tuple the loop runs over.
DateTuple == <<ex_tags["DateTime"], ex_tags["DateTimeOriginal"], ex_tags["DateTimeDigitized"]>>

\* Lines 57-62: self._date_taken after the loop over tuple t.
RECURSIVE first_parsed(_, _)
first_parsed(t, dflt) ==
    IF t = <<>> THEN dflt
    ELSE IF Parseable(Head(t)) THEN exif_parse(Head(t))
    ELSE first_parsed(Tail(t), dflt)

\* Lines 55-62: one read of the property date_taken.
date_taken ==
    /\ Len(ex_hist) < MaxAccess
    /\ ex_op' = "date_taken"
    /\ IF TagsEmpty
       THEN /\ ex_hist' = Append(ex_hist, None)
            /\ ex_exc' = "none"
            /\ UNCHANGED ex_date
       ELSE IF ex_date # None
       THEN /\ ex_hist' = Append(ex_hist, ex_date)
            /\ ex_exc' = "none"
            /\ UNCHANGED ex_date
       ELSE IF \E k \in DateKeys : ex_tags[k] = "absent"
       THEN /\ ex_exc' = "KeyError"
            /\ UNCHANGED <<ex_hist, ex_date>>
       ELSE /\ ex_date' = first_parsed(DateTuple, ex_date)
            /\ ex_hist' = Append(ex_hist, None)
            /\ ex_exc' = "none"
    /\ UNCHANGED <<ex_tags, ex_other, ex_year, fs, callvars, normvars, zipvars, xlvars, runvars>>

\* Lines 65-67: one read of the property year_taken.
year_taken ==
    /\ ex_op' = "year_taken"
    /\ IF ex_date = None
       THEN /\ ex_exc' = "AttributeError"
            /\ UNCHANGED ex_year
       ELSE /\ ex_exc' = "none"
            /\ ex_year' = ex_date[1]
    /\ UNCHANGED <<ex_tags, ex_other, ex_date, ex_hist, fs, callvars, normvars, zipvars, xlvars, runvars>>

\* Lines 33-39: the object as the constructor leaves it.
InitExif ==
    /\ fs = {}
    /\ CallIdle
    /\ NormIdle
    /\ RunIdle
    /\ ZipIdle
    /\ ex_tags \in [DateKeys -> TagValues]
    /\ ex_other \in BOOLEAN
    /\ ex_date = None
    /\ ex_op = "none"
    /\ ex_exc = "none"
    /\ ex_hist = <<>>
    /\ ex_year = 0
    /\ XlIdle

NextExif == date_taken \/ year_taken

SpecExif == InitExif /\ [][NextExif]_vars

-----------------------------------------------------------------------------
(* src/excel.py: ExcelAsDataFrame.__init__, ExcelAsDataFrame.as_df *)

\* The workbook: two sheets, and one table, on the second sheet.
XlSheets == <<"Sheet1", "Sheet2">>

XlTableSheet == [t \in {"T1"} |-> "Sheet2"]

XlWorksheets == {"", "Sheet1", "Sheet2"}
XlTables == {"", "T1"}
XlRanges == {"", "A1:C1"}
XlEngines == {"", "xlwings", "pandas", "XLWINGS", "openpyxl"}

\* str.lower()
lower(e) == IF e = "XLWINGS" THEN "xlwings" ELSE e

\* Lines 135-173: what as_df does, short of assigning self.df.
as_df_body(worksheet, table, range_, engine) ==
    LET engine1 == IF engine = "" THEN "xlwings" ELSE engine
        warned == engine1 \notin {"xlwings", "pandas"}
        path == IF lower(engine1) = "xlwings" THEN "xlwings" ELSE "pandas"
        w == IF worksheet # "" THEN worksheet
             ELSE IF table # "" THEN XlTableSheet[table]
             ELSE XlSheets[1]
    IN  IF table # "" /\ range_ # ""
        THEN [warned |-> warned, exc |-> "ValueError", acc |-> {}, path |-> "none", df |-> NoDf]
        ELSE IF table # "" /\ worksheet # "" /\ XlTableSheet[table] # worksheet
        THEN [warned |-> warned, exc |-> "KeyError", acc |-> {"sheet"}, path |-> "none",
              df |-> NoDf]
        ELSE [warned |-> warned, exc |-> "none",
              acc |-> IF table # "" THEN {"sheet", "table"}
                      ELSE IF range_ # "" THEN {"sheet", "range"}
                      ELSE {"sheet", "used_range"},
              path |-> path,
              df |-> [engine |-> path, sheet |-> w,
                      area |-> IF table # "" THEN "table"
                               ELSE IF range_ # "" THEN "range" ELSE "used_range"]]

\* Lines 59-77: the constructor.
xl_init(worksheet, table, range_) ==
    /\ xl_pc = "none"
    /\ xl_call' = [op |-> "init", worksheet |-> worksheet, table |-> table, range_ |-> range_,
                   set_as_self_dot_df |-> TRUE, engine |-> "xlwings"]
    /\ xl_app' = IF xl_active THEN "active" ELSE "created"
    /\ xl_df0' = xl_df
    /\ IF ~xl_file
       THEN /\ xl_exc' = "FileNotFoundError"
            /\ xl_pc' = "failed"
            /\ xl_warned' = FALSE
            /\ xl_acc' = {}
            /\ xl_path' = "none"
            /\ UNCHANGED <<xl_book, xl_df>>
       ELSE /\ xl_book' = TRUE
            /\ IF worksheet # "" \/ table # "" \/ range_ # ""
               THEN LET o == as_df_body(worksheet, table, range_, "xlwings")
                    IN  /\ xl_warned' = o.warned
                        /\ xl_acc' = o.acc
                        /\ xl_path' = o.path
                        /\ xl_exc' = o.exc
                        /\ xl_df' = IF o.exc = "none" THEN o.df ELSE xl_df
                        /\ xl_pc' = IF o.exc = "none" THEN "ready" ELSE "failed"
               ELSE /\ xl_warned' = FALSE
                    /\ xl_acc' = {}
                    /\ xl_path' = "none"
                    /\ xl_exc' = "none"
                    /\ xl_df' = NoDf
                    /\ xl_pc' = "ready"
    /\ UNCHANGED <<xl_active, xl_file, fs, callvars, normvars, zipvars, exvars, runvars>>

\* Lines 113-173: as_df, called on a constructed object.
as_df(worksheet, table, range_, set_as_self_dot_df, engine) ==
    /\ xl_pc = "ready"
    /\ xl_call' = [op |-> "as_df", worksheet |-> worksheet, table |-> table, range_ |-> range_,
                   set_as_self_dot_df |-> set_as_self_dot_df, engine |-> engine]
    /\ xl_df0' = xl_df
    /\ LET o == as_df_body(worksheet, table, range_, engine)
       IN  /\ xl_warned' = o.warned
           /\ xl_acc' = o.acc
           /\ xl_path' = o.path
           /\ xl_exc' = o.exc
           /\ xl_df' = IF o.exc = "none" /\ set_as_self_dot_df THEN o.df ELSE xl_df
    /\ UNCHANGED <<xl_active, xl_file, xl_pc, xl_app, xl_book, fs, callvars, normvars,
                   zipvars, exvars, runvars>>

InitExcel ==
    /\ fs = {}
    /\ CallIdle
    /\ NormIdle
    /\ RunIdle
    /\ ZipIdle
    /\ ExifIdle
    /\ xl_active \in BOOLEAN
    /\ xl_file \in BOOLEAN
    /\ xl_pc = "none"
    /\ xl_app = "none"
    /\ xl_book = FALSE
    /\ xl_df = NoDf
    /\ xl_df0 = NoDf
    /\ xl_call = NoXlCall
    /\ xl_warned = FALSE
    /\ xl_acc = {}
    /\ xl_path = "none"
    /\ xl_exc = "none"

NextExcel ==
    \/ \E worksheet \in XlWorksheets, table \in XlTables, range_ \in XlRanges :
          xl_init(worksheet, table, range_)
    \/ \E worksheet \in XlWorksheets, table \in XlTables, range_ \in XlRanges,
          set_as_self_dot_df \in BOOLEAN, engine \in XlEngines :
          as_df(worksheet, table, range_, set_as_self_dot_df, engine)

SpecExcel == InitExcel /\ [][NextExcel]_vars

-----------------------------------------------------------------------------
(* Properties *)

\* The source-file entries of a list of file names.
SrcPart(s) == SelectSeq(s, LAMBDA n : ~IsTmp(n))

NoDuplicates(s) == \A i, j \in DOMAIN s : i # j => s[i] # s[j]

IsSortedBy(key, s) == \A i, j \in DOMAIN s : i < j => ~KeyLess(key, s[j], s[i])

\* Elements of sorted with equal keys stand in the order they have in input.
StableIn(sorted, input, key) ==
    \A i, j \in DOMAIN sorted :
        (i < j /\ KeyEq(key, sorted[i], sorted[j]))
            => IndexOf(input, sorted[i]) < IndexOf(input, sorted[j])

\* The terms an argument names, as its documentation reads: a str is one term.
Terms(a) == IF a.kind = "str" THEN <<a.str>> ELSE a.items

MatchesSome(f, a) == \E i \in DOMAIN Terms(a) : Contains(f, Terms(a)[i])

\* The candidates of the call that pass its find / exclude filters, in sorted order.
Survivors ==
    IF call.fn = "merge_img"
    THEN SelectSeq(FL, LAMBDA p : ~(call.find.str # <<>> /\ ~Contains(basename(p), call.find.str)))
    ELSE FL

\* C1: in every successful run of merge_img and merge_img2 the list handed to
\* img2pdf.convert is exactly the list of pages staged, one page per surviving
\* candidate in sorted candidate order, with no source file in it.
C1_PackedIsStagedPages ==
    (pc = "done" /\ result = "returned" /\ call.fn \in ImgFns) =>
        /\ packed = [i \in DOMAIN staged |-> staged[i].name]
        /\ [i \in DOMAIN staged |-> staged[i].src] = Survivors
        /\ \A i \in DOMAIN packed : IsTmp(packed[i])

\* C2: when the output pdf exists and overwrite is False, merge_img and
\* merge_img2 create no staging folder and write no page (the call fails with
\* FileExistsError first).
C2_ExistsErrorBeforeStaging ==
    (call.fn \in ImgFns /\ ~call.overwrite /\ OutPdf \in fs /\ ~out_written) =>
        /\ tmp_fld = "none"
        /\ staged = <<>>
        /\ result \in {"running", "sentinel", "FileExistsError"}

\* C3: when merge_img or merge_img2 terminates, by return or by exception, a
\* staging folder it created is gone unless keep_tmp_images is True, and is
\* retained if keep_tmp_images is True.
C3_StagingRemovedAtExit ==
    (pc = "done" /\ call.fn \in ImgFns /\ tmp_fld # "none") =>
        tmp_fld = IF call.keep THEN "exists" ELSE "removed"

\* C4: merge_pdf merges a discovered pdf iff its name contains no exclude term
\* and, when find terms are given, contains some find term; find and exclude
\* each being a list, a tuple or a single string (one term).
C4_ExcludeOverridesFind ==
    (pc = "done" /\ call.fn = "merge_pdf") =>
        \A i \in DOMAIN enumerated :
            (enumerated[i] \in Range(pdfs)) <=>
                /\ ~MatchesSome(basename(enumerated[i]), call.exclude)
                /\ Terms(call.find) = <<>> \/ MatchesSome(basename(enumerated[i]), call.find)

\* C5: with recurse=True the groups of merge_img2 are the immediate child
\* folders of rootdir, files is the concatenation of the groups' sorted files
\* in the sorted order of the groups, and every candidate is in it exactly once.
C5_GroupsAreChildFolders ==
    (pc # "idle" /\ call.fn = "merge_img2" /\ call.recurse) =>
        /\ Range(folders) = {d \in folder_generator2(fs) : dirname(d) = RootDir}
        /\ IsSortedBy(sort_key(call.fn, call.dsort), folders)
        /\ files = Flatten(groups)
        /\ \A k \in DOMAIN groups :
              /\ IsSortedBy(sort_key(call.fn, call.sort), groups[k])
              /\ \A i \in DOMAIN groups[k] : IsBelow(groups[k][i], folders[k])
        /\ NoDuplicates(files)
        /\ Range(files) = Range(enumerated)

\* No image passes discovery and the find / exclude filters of the call.
NoCandidates ==
    IF call.fn = "merge_img"
    THEN \A i \in DOMAIN enumerated :
            call.find.str # <<>> /\ ~Contains(basename(enumerated[i]), call.find.str)
    ELSE enumerated = <<>>

\* C6: when no image passes discovery and the filters, merge_img and
\* merge_img2 return (None, None, None): nothing is raised, no staging folder
\* is created and the output pdf is not written.
C6_NoCandidatesSentinel ==
    (pc # "idle" /\ call.fn \in ImgFns /\ NoCandidates) =>
        /\ tmp_fld = "none"
        /\ ~out_written
        /\ result \in {"running", "sentinel"}
        /\ pc = "done" => result = "sentinel"

\* The lists the call has sorted with its file key.
FileLists ==
    IF call.fn = "merge_pdf" THEN <<pdfs>>
    ELSE IF call.fn = "merge_img2" /\ call.recurse THEN groups
    ELSE <<SrcPart(files)>>

\* C7 as first stated: with no key function supplied, the files and the
\* folder groups are in identity (lexicographic) order.
C7_DefaultKeyIsIdentity ==
    pc # "idle" =>
        /\ call.sort = "default" =>
              \A k \in DOMAIN FileLists : IsSortedBy("ident", FileLists[k])
        /\ call.dsort = "default" => IsSortedBy("ident", folders)

\* C7: with no key function supplied merge_pdf orders by the identity key;
\* merge_img and merge_img2 order files, and merge_img2 the folder groups, by
\* len; they order by the identity key when None is passed as the key.
C7_DefaultKeys ==
    pc # "idle" =>
        /\ (call.fn = "merge_pdf" /\ call.sort = "default") => IsSortedBy("ident", pdfs)
        /\ (call.fn \in ImgFns /\ call.sort = "default") =>
              \A k \in DOMAIN FileLists : IsSortedBy("len", FileLists[k])
        /\ (call.fn \in ImgFns /\ call.sort = "none") =>
              \A k \in DOMAIN FileLists : IsSortedBy("ident", FileLists[k])
        /\ (call.fn = "merge_img2" /\ call.dsort = "default") => IsSortedBy("len", folders)
        /\ (call.fn = "merge_img2" /\ call.dsort = "none") => IsSortedBy("ident", folders)

\* A default-key call of merge_img2 has run on two files whose len order is
\* not their identity order.
C7_Witness ==
    /\ call.fn = "merge_img2" /\ call.sort = "default"
    /\ pc = "done" /\ result = "returned"
    /\ files = << <<"r", "/", "b">>, <<"r", "/", "a", "b">> >>

\* C8: the file sorts and the folder sort are stable: entries with equal keys
\* keep the order in which discovery enumerated them.
C8_SortsAreStable ==
    pc # "idle" =>
        /\ \A k \in DOMAIN FileLists :
              StableIn(FileLists[k], enumerated, sort_key(call.fn, call.sort))
        /\ StableIn(folders, fld_enum, sort_key(call.fn, call.dsort))

\* Files with equal keys enumerated against their lexicographic order, and
\* folders likewise, have been sorted.
C8_Witness ==
    /\ call.fn = "merge_img2" /\ call.recurse
    /\ pc = "done" /\ result = "returned"
    /\ \E i, j \in DOMAIN fld_enum :
          /\ i < j
          /\ KeyEq(sort_key(call.fn, call.dsort), fld_enum[i], fld_enum[j])
          /\ StrLess(fld_enum[j], fld_enum[i])
    /\ \E k \in DOMAIN groups : \E i, j \in DOMAIN groups[k] :
          /\ i < j
          /\ KeyEq(sort_key(call.fn, call.sort), groups[k][i], groups[k][j])
          /\ StrLess(groups[k][j], groups[k][i])

\* C9: once a page write has failed the call has raised: no further page is
\* staged, and the output pdf is neither created nor written.
C9_WriteFailureIsFatal ==
    write_failed =>
        /\ pc = "done"
        /\ result = "Exception"
        /\ Len(staged) < idx
        /\ ~out_written
        /\ packed = <<>>

\* A write failed after a page had been staged and with candidates left.
C9_Witness ==
    /\ write_failed
    /\ call.fn = "merge_img2"
    /\ Len(staged) >= 1
    /\ idx < Len(FL)

\* C10: the normalized page is at most 595 wide and 842 high, and no larger
\* in either dimension than the rotated source image.
C10_PageFitsAndNeverGrows ==
    npc = "page" =>
        LET rw == IF src_wh[1] > src_wh[2] THEN src_wh[2] ELSE src_wh[1]
            rh == IF src_wh[1] > src_wh[2] THEN src_wh[1] ELSE src_wh[2]
        IN  /\ img_wh[1] <= A4W
            /\ img_wh[2] <= A4H
            /\ img_wh[1] <= rw
            /\ img_wh[2] <= rh

\* A landscape source larger than the page, rotated and shrunk by both resizes.
C10_Witness ==
    /\ npc = "page"
    /\ src_wh[1] > src_wh[2]
    /\ src_wh[2] > A4W
    /\ img_wh[1] = A4W
    /\ img_wh[2] < A4H

\* C14: the third element of the tuple a successful merge_img call returns is
\* the list of matched source images: exactly the discovered images that
\* passed the find filter, and no path of the staging folder.
C14_ReturnedFilesAreMatchedSources ==
    (pc = "done" /\ result = "returned" /\ call.fn = "merge_img") =>
        /\ Range(ret_files) = Range(Survivors)
        /\ \A i \in DOMAIN ret_files : ~IsTmp(ret_files[i])

\* C13: zipdir called with overwrite=False on an existing dest raises
\* FileExistsError and leaves dest as it was: dest is not opened, root is not
\* listed and no file of root is read.  Called with overwrite=True on an
\* existing dest it returns with dest replaced by the archive of the matching
\* files of root.
C13_ExistingDestGuard ==
    [][/\ (zdest.exists /\ ~zcall'.overwrite) =>
              /\ zresult' = "FileExistsError"
              /\ zdest' = zdest
              /\ ~zopened'
              /\ ~zlisted'
              /\ zread' = {}
       /\ (zdest.exists /\ zcall'.overwrite) =>
              /\ zresult' = "returned"
              /\ zopened'
              /\ zdest'.exists
              /\ Range(zdest'.members) = {f \in zroot : zip_filt(f, zcall'.name_match)}
              /\ zread' = Range(zdest'.members)]_zipvars

\* zipdir was refused on an existing archive, with files in root that match.
C13_Witness ==
    /\ zresult = "FileExistsError"
    /\ ~zcall.overwrite
    /\ zdest = OldZip
    /\ \E f \in zroot : zip_filt(f, zcall.name_match)

\* C15: for an exif.Image whose tags hold a parseable DateTime value every
\* read of date_taken, the first one included, returns the parsed datetime:
\* no read raises, none returns None (the tags were read), and successive
\* reads return the same value.
C15_DateTakenFromFirstRead ==
    Parseable(ex_tags["DateTime"]) =>
        /\ \A i \in DOMAIN ex_hist : ex_hist[i] = exif_parse(ex_tags["DateTime"])
        /\ \A i, j \in DOMAIN ex_hist : ex_hist[i] = ex_hist[j]
        /\ ex_op = "date_taken" => ex_exc = "none"

\* C12: when both a table and a range are named ExcelAsDataFrame raises
\* ValueError before any I/O: through the constructor no Excel application
\* has been acquired and no workbook opened; through as_df no sheet, table or
\* range has been accessed and self.df is as it was.
C12_BothSelectorsRejectedBeforeIO ==
    (xl_call.table # "" /\ xl_call.range_ # "" /\ xl_call.op # "none") =>
        /\ xl_exc = "ValueError"
        /\ xl_acc = {}
        /\ xl_path = "none"
        /\ xl_df = xl_df0
        /\ xl_call.op = "init" => (xl_app = "none" /\ ~xl_book)

\* C16: as_df called with an engine that is neither 'xlwings' nor 'pandas'
\* warns and then reads with the xlwings engine: the call does what the same
\* call with engine='xlwings' does, and the pandas read path is not taken.
C16_InvalidEngineReadsWithXlwings ==
    (xl_call.op = "as_df" /\ xl_call.engine \notin {"", "xlwings", "pandas"}) =>
        /\ xl_warned
        /\ xl_path # "pandas"
        /\ LET o == as_df_body(xl_call.worksheet, xl_call.table, xl_call.range_, "xlwings")
           IN  /\ xl_path = o.path
               /\ xl_exc = o.exc
               /\ (o.exc = "none" /\ xl_call.set_as_self_dot_df) => xl_df = o.df

\* C11: two runs of merge_img2, or of merge_img, with the same arguments on
\* the same unchanged source files put the pages in the same order into the
\* output document, whatever the names of the staged files.
C11_SamePageOrder ==
    (run = 2 /\ pc = "done" /\ result = "returned" /\ call.fn \in ImgFns) =>
        PageOrder = first.order

\* A second run of merge_img2 has packed two or more pages, staged under
\* names other than those of the first run.
C11_Witness ==
    /\ run = 2
    /\ pc = "done"
    /\ result = "returned"
    /\ call.fn = "merge_img2"
    /\ Len(packed) >= 2
    /\ Len(first.packed) = Len(packed)
    /\ \A i \in DOMAIN packed : packed[i] # first.packed[i]

\* C17: merge_pdf never takes its own output as an input: the output pdf is
\* not among the files the call opens for reading, and a second call in a row
\* on the same rootdir merges the list the first call merged.
C17_OutputIsNeverInput ==
    (pc = "done" /\ call.fn = "merge_pdf") =>
        /\ ~(out_written /\ OutPdf \in Range(packed))
        /\ run = 2 => pdfs = first.pdfs


====
